---- MODULE Spec2Model ----
(***************************************************************************)
(* Model of the astro-electron-ts command line tool (src/bin/cli.ts).      *)
(*                                                                         *)
(* One run of main() is a linear sequence of awaited steps.  The state is  *)
(* the project on disk (manifest, configuration file, electron directory,  *)
(* the directory of a project being created), the position of the run,     *)
(* and what the run has printed and done so far.  The environment (the     *)
(* user at a prompt, the file system, the package manager) chooses the     *)
(* outcome of every awaited call.                                          *)
(*                                                                         *)
(* File contents are kept as far as the code reads them:                   *)
(*  - the manifest is the set of packages it declares (dependencies and    *)
(*    devDependencies together, the code reads them with ||) and the value *)
(*    of its main field;                                                   *)
(*  - the configuration file is a sequence of text chunks, each either one *)
(*    of the literal strings the code searches for or text that contains   *)
(*    none of them; it stands for the first astro.config.* file found in   *)
(*    the order of ASTRO_EXTENSIONS;                                       *)
(*  - the electron directory is the set of file names in it.               *)
(***************************************************************************)
EXTENDS Integers, Sequences, FiniteSets, TLC

VARIABLES
    pc,         \* position of the run
    pm,         \* package manager of the run
    pkg,        \* package.json of the working directory
    cfg,        \* astro.config.* of the working directory
    edir,       \* electron/ of the working directory
    tgt,        \* directory of the project being created
    status,     \* projectStatus snapshot of main()
    outcome,    \* branch main() took
    lang,       \* template type chosen in the creation flow
    idx,        \* number of finished install invocations
    out,        \* standard output, one entry per message
    err,        \* error stream, one entry per message
    ops,        \* prompts, writes, copies, renames and installs, in order
    exitCode,   \* exit status of the process
    fs0,        \* the project on disk when the run started
    cancelAt,   \* the prompt the user cancelled, and the logs at that time
    failedAt,   \* the operation that failed, and the log at that time
    owAns,      \* the answer to an overwrite prompt
    addAns,     \* the answer to the add/configure prompt
    steps,      \* the steps of the integration flow entered so far
    applied,    \* number of finished calls of addElectronIntegration
    hook        \* the plugin's post-build hook: its inputs, the build output, its progress

vars == <<pc, pm, pkg, cfg, edir, tgt, status, outcome, lang, idx, out, err,
          ops, exitCode, fs0, cancelAt, failedAt, owAns, addAns, steps, applied, hook>>

(***************************************************************************)
(* Bounds                                                                  *)
(***************************************************************************)
\* longest configuration content (in chunks) a run of main() starts from
MaxCfgLen == 1
\* longest configuration content the repeated augmentation starts from
MaxAugLen == 3
\* number of times the repeated augmentation is applied
MaxApply == 2

(***************************************************************************)
(* The project on disk                                                     *)
(***************************************************************************)
PackageManagers == {"npm", "yarn", "pnpm", "bun"}

\* the value of a main field that is not in the manifest
MainAbsent == "<absent>"
MainEntry == "dist-electron/main.js"
\* main fields of the manifests a run starts from: none, empty, some file
MainValues == {MainAbsent, "", "index.js"}

NoPkg == [exists |-> FALSE, valid |-> FALSE, deps |-> {}, main |-> MainAbsent]
BadPkg == [exists |-> TRUE, valid |-> FALSE, deps |-> {}, main |-> MainAbsent]
Pkgs ==
    {NoPkg, BadPkg} \cup
    { [exists |-> TRUE, valid |-> TRUE, deps |-> d, main |-> m] :
        d \in SUBSET {"astro", "electron", "typescript"}, m \in MainValues }

\* the strings addElectronIntegration and isElectronProject search for
Marker == "astro-electron-ts"
ConfigOpen == "defineConfig({"
ConfigEmpty == "defineConfig()"
ImportLine == "import electron from 'astro-electron-ts';\n"
\* chunks of a configuration file a run starts from
InputChunks == {Marker, ConfigOpen, ConfigEmpty, "export default {}"}

SeqsUpTo(S, n) == UNION { [1..k -> S] : k \in 0..n }

NoCfg == [exists |-> FALSE, content |-> <<>>]
Cfgs(n) == {NoCfg} \cup { [exists |-> TRUE, content |-> c] : c \in SeqsUpTo(InputChunks, n) }

ElectronFiles == {"main.ts", "preload.ts", "main.js", "preload.js"}
TemplateElectronFiles == {"main.ts", "preload.ts"}
NoEdir == [exists |-> FALSE, files |-> {}]
\* electron directories a run starts from: none, empty, one variant's files,
\* a part of them, both variants' files
EdirFileSets == {{}, {"main.ts"}, {"main.ts", "preload.ts"}, {"main.js", "preload.js"},
                 {"main.ts", "main.js", "preload.js"}, ElectronFiles}
Edirs == {NoEdir} \cup { [exists |-> TRUE, files |-> f] : f \in EdirFileSets }

(***************************************************************************)
(* Project Inspector                                                       *)
(***************************************************************************)
\* String.includes on the configuration text
Includes(content, s) == \E i \in 1..Len(content) : content[i] = s
HasMarker(content) == Includes(content, Marker) \/ Includes(content, ImportLine)

hasPackageJson(p) == p.exists

isAstroProject(p) == p.exists /\ p.valid /\ "astro" \in p.deps

isElectronProject(p, c) ==
    /\ p.exists /\ p.valid
    /\ "electron" \in p.deps
    /\ HasMarker(IF c.exists THEN c.content ELSE <<>>)

\* !!packageJson.main: an empty string is falsy
Truthy(m) == m # MainAbsent /\ m # ""
hasMainField(p) == p.exists /\ p.valid /\ Truthy(p.main)

isJavaScriptProject(p) ==
    IF p.exists /\ p.valid THEN "typescript" \notin p.deps ELSE TRUE

hasElectronFiles(p, e) ==
    /\ e.exists
    /\ IF isJavaScriptProject(p)
       THEN {"main.js", "preload.js"} \subseteq e.files
       ELSE {"main.ts", "preload.ts"} \subseteq e.files

NoStatus == [hasAstro |-> FALSE, hasElectron |-> FALSE, mainExists |-> FALSE,
             electronFilesExist |-> FALSE]
\* the projectStatus record main() builds
ProjectStatus(p, c, e) ==
    [hasAstro |-> isAstroProject(p),
     hasElectron |-> isElectronProject(p, c),
     mainExists |-> hasMainField(p),
     electronFilesExist |-> hasElectronFiles(p, e)]

(***************************************************************************)
(* Commands                                                                *)
(***************************************************************************)
getInstallCommand(packageManager, packageName) ==
    CASE packageManager = "yarn" -> "yarn add " \o packageName
      [] packageManager = "pnpm" -> "pnpm add " \o packageName
      [] packageManager = "bun" -> "bun add " \o packageName
      [] OTHER -> "npm install " \o packageName

\* lines 629-630 with the two dependencies in the other order
InstallList_swapped == <<"astro-electron-ts", "electron", "electron-builder">>
\* the packages main() installs, in order: dependencies, then devDependencies
InstallList == <<"electron", "astro-electron-ts", "electron-builder">>
\* the package name main() hands to getInstallCommand for the i-th install
InstallArg(i) == IF i <= 2 THEN InstallList[i] ELSE "-D " \o InstallList[i]

(***************************************************************************)
(* Logs                                                                    *)
(***************************************************************************)
Prompt(name) == [kind |-> "prompt", arg |-> name]
Write(file) == [kind |-> "write", arg |-> file]
Rename(file) == [kind |-> "rename", arg |-> file]
Copy(what) == [kind |-> "cp", arg |-> what]
Exec(cmd) == [kind |-> "exec", arg |-> cmd]

MsgCancelled == "Operation cancelled"
MsgAllSet == "You're all set! Run your dev command to get started."
MsgSkipCopy == "Skipping electron files copy"
MsgAddedFiles == "Added Electron files to your project"
MsgAddedIntegration == "Added Electron integration to Astro config"
MsgAddedMain == "Added main field to package.json"
MsgCreated == "Project created successfully!"

Has(log, m) == \E i \in 1..Len(log) : log[i] = m
OfKind(k) == { i \in 1..Len(ops) : ops[i].kind = k }
\* everything the run did to the disk or handed to the package manager
Mutations == { i \in 1..Len(ops) : ops[i].kind # "prompt" }

(***************************************************************************)
(* Manifest/Config Editor: addElectronIntegration                          *)
(***************************************************************************)
ElectronConfig(isJS) ==
    IF isJS
    THEN "electron({ main: { entry: 'electron/main.js' }, preload: { input: 'electron/preload.js' } })"
    ELSE "electron()"

\* String.replace with a string pattern: the first occurrence only
ReplaceFirst(content, s, repl) ==
    LET i == CHOOSE j \in 1..Len(content) :
                 content[j] = s /\ \A k \in 1..(j - 1) : content[k] # s
    IN SubSeq(content, 1, i - 1) \o repl \o SubSeq(content, i + 1, Len(content))

\* lines 243-273: the text written back to the configuration file
AugmentContent(content, isJS) ==
    LET c1 == IF Includes(content, ConfigOpen)
              THEN ReplaceFirst(content, ConfigOpen,
                       <<ConfigOpen, "\n  integrations: [", ElectronConfig(isJS), "],\n">>)
              ELSE IF Includes(content, ConfigEmpty)
              THEN ReplaceFirst(content, ConfigEmpty,
                       <<ConfigOpen, "\n  integrations: [", ElectronConfig(isJS), "]\n})">>)
              ELSE content
    IN IF ~HasMarker(c1) THEN <<ImportLine>> \o c1 ELSE c1

\* line 236 without its test: the integration is added again
AlreadyIntegrated_never(content) == FALSE
\* line 236: the integration is already in the configuration
AlreadyIntegrated(content) == HasMarker(content)

\* where a call of addElectronIntegration can fail
AugFaults == {"none", "read", "write", "rename:main", "rename:preload",
              "read:main.js", "write:main.js"}

AugReturn(c, e, o, r, w, thrown) ==
    [cfg |-> c, edir |-> e, ops |-> o, out |-> r, err |-> w, threw |-> thrown]
AugThrow(c, e, o, r) ==
    AugReturn(c, e, o, r, <<"Error adding Electron integration:">>, TRUE)

\* lines 279-298: the renames of the untyped variant, after the write
AugRenames(c2, e, f) ==
    LET o1 == <<Write("astro.config")>>
        r1 == <<MsgAddedIntegration>>
        e1 == [e EXCEPT !.files = (@ \ {"main.ts"}) \cup {"main.js"}]
        o2 == Append(o1, Rename("main"))
        e2 == [e1 EXCEPT !.files = (@ \ {"preload.ts"}) \cup {"preload.js"}]
        o3 == Append(o2, Rename("preload"))
    IN IF f = "rename:main" \/ "main.ts" \notin e.files THEN AugThrow(c2, e, o1, r1)
       ELSE IF f = "rename:preload" \/ "preload.ts" \notin e1.files THEN AugThrow(c2, e1, o2, r1)
       ELSE IF f \in {"read:main.js", "write:main.js"} THEN AugThrow(c2, e2, o3, r1)
       ELSE AugReturn(c2, e2, Append(o3, Write("electron/main.js")), r1, <<>>, FALSE)

\* addElectronIntegration on configuration c, electron directory e and
\* manifest p, failing at f: the files after the call, what it logged and
\* whether it threw
addElectronIntegration(c, e, p, f) ==
    IF ~c.exists
    THEN AugReturn(c, e, <<>>, <<>>, <<"Could not find astro.config file. Skipping integration setup.">>, FALSE)
    ELSE IF f = "read" THEN AugThrow(c, e, <<>>, <<>>)
    ELSE IF AlreadyIntegrated(c.content) THEN AugReturn(c, e, <<>>, <<>>, <<>>, FALSE)
    ELSE LET isJS == isJavaScriptProject(p)
             c2 == [c EXCEPT !.content = AugmentContent(c.content, isJS)]
         IN IF f = "write" THEN AugThrow(c, e, <<>>, <<>>)
            ELSE IF isJS THEN AugRenames(c2, e, f)
            ELSE AugReturn(c2, e, <<Write("astro.config")>>, <<MsgAddedIntegration>>, <<>>, FALSE)

(***************************************************************************)
(* Control: how a step continues, returns or throws                        *)
(***************************************************************************)
MsgCancelledNl == "\nOperation cancelled"

\* lines 689-692 without process.exit(1)
TopLevelCatch_noExit == [exit |-> 0, err |-> <<"Failed to run CLI:">>]
\* main()'s catch, lines 675-685: what it prints and the exit status it sets
MainCatch == [exit |-> 1, err |-> <<"Error:">>]
\* the catch on main()'s promise, lines 689-692; errors of createNewProject
\* reach it, because main() returns that promise without awaiting it
TopLevelCatch == [exit |-> 1, err |-> <<"Failed to run CLI:">>]

NoCancel == [site |-> "none", ops |-> 0, err |-> 0]
NoFailure == [what |-> "none", ops |-> 0]
NoAnswer == [site |-> "none", ans |-> "none"]

Log(nout, nerr, nops) ==
    /\ out' = out \o nout
    /\ err' = err \o nerr
    /\ ops' = ops \o nops

\* the run goes on at position p
Goto(p) == pc' = p /\ exitCode' = exitCode /\ failedAt' = failedAt
\* the run returns normally
Return == Goto("done")
\* an error reaches handler h; what names the failed operation ("none" for a
\* rejected prompt), n is the length of ops after the step
Throw(h, what, n) ==
    /\ pc' = "done"
    /\ exitCode' = h.exit
    /\ failedAt' = IF what = "none" THEN failedAt ELSE [what |-> what, ops |-> n]

\* the user cancels the prompt at site s (the prompt itself is in ops)
Cancelled(s) == cancelAt' = [site |-> s, ops |-> Len(ops) + 1, err |-> Len(err)]

PromptAnswers == {"yes", "no", "cancel", "error"}

(***************************************************************************)
(* Reconciliation Controller: main()                                       *)
(***************************************************************************)
\* lines 517-518 and 19-31
DetectPackageManager ==
    /\ pc = "start"
    /\ \E r \in PackageManagers \cup {"fail"} :
         /\ pm' = IF r = "fail" THEN "npm" ELSE r
         /\ Log(<<>>, IF r = "fail" THEN <<"Failed to detect package manager:">> ELSE <<>>, <<>>)
    /\ Goto("hasPackageJson")
    /\ UNCHANGED <<pkg, cfg, edir, tgt, status, outcome, lang, idx, fs0, cancelAt, owAns, applied, addAns, steps, hook>>

\* lines 521-526
HasPackageJson ==
    /\ pc = "hasPackageJson"
    /\ IF ~hasPackageJson(pkg)
       THEN outcome' = "NoProject" /\ Goto("projectName")
       ELSE outcome' = outcome /\ Goto("inspect")
    /\ UNCHANGED <<pm, pkg, cfg, edir, tgt, status, lang, idx, out, err, ops, fs0, cancelAt, owAns, applied, addAns, steps, hook>>

\* lines 79-83 without the inner catch: a manifest that does not parse throws
isAstroProjectThrows_parse(p, readError) == readError \/ (p.exists /\ ~p.valid)
\* lines 75-96: the inner catch turns a parse error into false, the outer one
\* turns ENOENT into false and rethrows every other read error
isAstroProjectThrows(p, readError) == readError

\* lines 529-534; isAstroProject rethrows a read error other than ENOENT
Inspect ==
    /\ pc = "inspect"
    /\ \E readError \in BOOLEAN :
         IF isAstroProjectThrows(pkg, readError)
         THEN /\ status' = status
              /\ Log(<<>>, MainCatch.err, <<>>)
              /\ Throw(MainCatch,
                       IF readError THEN "read:package.json" ELSE "parse:package.json",
                       Len(ops))
         ELSE /\ status' = ProjectStatus(pkg, cfg, edir)
              /\ Log(<<>>, <<>>, <<>>)
              /\ Goto("decide")
    /\ UNCHANGED <<pm, pkg, cfg, edir, tgt, outcome, lang, idx, fs0, cancelAt, owAns, applied, addAns, steps, hook>>

\* lines 537-542 without the framework test
FullyConfigured_noFramework(st) ==
    st.hasElectron /\ st.mainExists /\ st.electronFilesExist
\* lines 537-542 with the last test negated
FullyConfigured_filesMissing(st) ==
    st.hasAstro /\ st.hasElectron /\ st.mainExists /\ ~st.electronFilesExist
\* lines 537-542
FullyConfigured(st) ==
    st.hasAstro /\ st.hasElectron /\ st.mainExists /\ st.electronFilesExist

\* lines 537-559: the branch main() takes on the snapshot
Decide(st) ==
    IF FullyConfigured(st) THEN "FullyConfigured"
    ELSE IF ~st.hasAstro THEN "ProjectNoFramework"
    ELSE IF st.hasAstro /\ (~st.hasElectron \/ ~st.mainExists \/ ~st.electronFilesExist)
    THEN "NeedsIntegration"
    ELSE "None"

\* lines 560-575
DetectedMessages(st) ==
    <<"Astro project detected!">>
    \o (IF ~st.hasElectron THEN <<"Electron not detected in package.json">> ELSE <<>>)
    \o (IF ~st.mainExists THEN <<"Main field missing in package.json">> ELSE <<>>)
    \o (IF ~st.electronFilesExist THEN <<"Required Electron files missing">> ELSE <<>>)

\* lines 537-575
Classify ==
    /\ pc = "decide"
    /\ outcome' = Decide(status)
    /\ CASE Decide(status) = "FullyConfigured" ->
              Log(<<"Astro + Electron project detected!", MsgAllSet>>, <<>>, <<>>) /\ Return
         [] Decide(status) = "ProjectNoFramework" ->
              Log(<<>>, <<>>, <<>>) /\ Goto("projectName")
         [] Decide(status) = "NeedsIntegration" ->
              Log(DetectedMessages(status), <<>>, <<>>) /\ Goto("confirmAdd")
         [] OTHER -> Log(<<>>, <<>>, <<>>) /\ Return
    /\ UNCHANGED <<pm, pkg, cfg, edir, tgt, status, lang, idx, fs0, cancelAt, owAns, applied, addAns, steps, hook>>

\* line 593 without its test: the flow goes on after a no
ShouldAddElectron_always(ans) == TRUE
\* lines 579-584 and 593: the value of shouldAddElectron
ShouldAddElectron(ans) == ans = "yes"

\* lines 577-596
ConfirmAdd ==
    /\ pc = "confirmAdd"
    /\ \E ans \in PromptAnswers :
         /\ addAns' = ans
         /\ CASE ans = "cancel" ->
                /\ Log(<<MsgCancelledNl>>, <<>>, <<Prompt("addElectron")>>)
                /\ Return /\ Cancelled("addElectron")
              [] ans = "error" ->
                /\ Log(<<>>, MainCatch.err, <<Prompt("addElectron")>>)
                /\ Throw(MainCatch, "none", 0) /\ cancelAt' = cancelAt
              [] ans \in {"yes", "no"} /\ ShouldAddElectron(ans) ->
                /\ Log(<<>>, <<>>, <<Prompt("addElectron")>>)
                /\ Goto("copyFiles") /\ cancelAt' = cancelAt
              [] OTHER ->
                /\ Log(<<MsgCancelled>>, <<>>, <<Prompt("addElectron")>>)
                /\ Return /\ cancelAt' = cancelAt
    /\ UNCHANGED <<pm, pkg, cfg, edir, tgt, status, outcome, lang, idx, fs0, owAns, applied, steps, hook>>

\* lines 600-603 and 485-489: is the copy needed, and is the directory there
CopyElectronFilesCheck ==
    /\ pc = "copyFiles"
    /\ IF status.electronFilesExist THEN Goto("integrate") /\ steps' = steps
       ELSE /\ steps' = Append(steps, "copyElectronFiles")
            /\ IF edir.exists THEN Goto("overwriteElectron") ELSE Goto("cpElectron")
    /\ UNCHANGED <<pm, pkg, cfg, edir, tgt, status, outcome, lang, idx, out, err, ops, fs0, cancelAt, owAns, applied, addAns, hook>>

\* lines 490-501: the catch takes every rejection of the prompt for a
\* missing directory, and the copy goes on
OverwriteElectron ==
    /\ pc = "overwriteElectron"
    /\ \E ans \in PromptAnswers :
         /\ owAns' = [site |-> "electron", ans |-> ans]
         /\ IF ans = "no"
            THEN Log(<<MsgSkipCopy>>, <<>>, <<Prompt("overwriteElectron")>>) /\ Goto("integrate")
            ELSE Log(<<>>, <<>>, <<Prompt("overwriteElectron")>>) /\ Goto("cpElectron")
         /\ IF ans = "cancel" THEN Cancelled("overwriteElectron") ELSE cancelAt' = cancelAt
    /\ UNCHANGED <<pm, pkg, cfg, edir, tgt, status, outcome, lang, idx, fs0, applied, addAns, steps, hook>>

\* lines 504-512
CpElectron ==
    /\ pc = "cpElectron"
    /\ \E ok \in BOOLEAN :
         IF ok
         THEN /\ edir' = [exists |-> TRUE, files |-> edir.files \cup TemplateElectronFiles]
              /\ Log(<<MsgAddedFiles>>, <<>>, <<Copy("electron")>>)
              /\ Goto("integrate")
         ELSE /\ edir' = edir
              /\ Log(<<>>, <<"Error copying electron files:">> \o MainCatch.err, <<>>)
              /\ Throw(MainCatch, "cp:electron", Len(ops))
    /\ UNCHANGED <<pm, pkg, cfg, tgt, status, outcome, lang, idx, fs0, cancelAt, owAns, applied, addAns, steps, hook>>

\* line 606
Integrate ==
    /\ pc = "integrate"
    /\ steps' = Append(steps, "addElectronIntegration")
    /\ \E f \in AugFaults :
         LET r == addElectronIntegration(cfg, edir, pkg, f)
         IN /\ cfg' = r.cfg
            /\ edir' = r.edir
            /\ IF r.threw
               THEN /\ Log(r.out, r.err \o MainCatch.err, r.ops)
                    /\ Throw(MainCatch,
                             IF f = "none" THEN "rename:ENOENT" ELSE "addElectronIntegration",
                             Len(ops) + Len(r.ops))
               ELSE /\ Log(r.out, r.err, r.ops)
                    /\ Goto("mainField")
    /\ UNCHANGED <<pm, pkg, tgt, status, outcome, lang, idx, fs0, cancelAt, owAns, applied, addAns, hook>>

\* lines 608-624
MainFieldFaults == {"none", "read", "parse", "write"}
SetMainField ==
    /\ pc = "mainField"
    /\ steps' = IF status.mainExists THEN steps ELSE Append(steps, "setMainField")
    /\ IF status.mainExists
       THEN /\ pkg' = pkg
            /\ Log(<<>>, <<>>, <<>>)
            /\ Goto("install")
       ELSE \E f \in MainFieldFaults :
              IF f = "none"
              THEN /\ pkg' = [pkg EXCEPT !.main = MainEntry]
                   /\ Log(<<MsgAddedMain>>, <<>>, <<Write("package.json")>>)
                   /\ Goto("install")
              ELSE /\ pkg' = pkg
                   /\ Log(<<>>, <<"Error updating package.json:">> \o MainCatch.err, <<>>)
                   /\ Throw(MainCatch, f \o ":package.json", Len(ops))
    /\ UNCHANGED <<pm, cfg, edir, tgt, status, outcome, lang, idx, fs0, cancelAt, owAns, applied, addAns, hook>>

\* lines 639-642 and 652-655 without the throw: the loop goes on
InstallThrows_swallowed(ok) == FALSE
\* lines 638-642 and 651-655: execSync throws when the command fails, and
\* the catch throws again
InstallThrows(ok) == ~ok

\* lines 626-657: one turn of the two install loops
Install ==
    /\ pc = "install"
    /\ IF status.hasElectron \/ idx = Len(InstallList)
       THEN /\ pkg' = pkg /\ idx' = idx /\ steps' = steps
            /\ Log(<<>>, <<>>, <<>>)
            /\ Goto("summary")
       ELSE \E ok \in BOOLEAN :
              LET dep == InstallList[idx + 1]
                  cmd == getInstallCommand(pm, InstallArg(idx + 1))
                  said == (IF idx = 0 THEN <<"Installing dependencies...">> ELSE <<>>)
                          \o <<"Running: " \o cmd>>
              IN /\ idx' = idx + 1
                 /\ steps' = Append(steps, cmd)
                 /\ pkg' = IF ok THEN [pkg EXCEPT !.deps = @ \cup {dep}] ELSE pkg
                 /\ IF InstallThrows(ok)
                    THEN /\ Log(said, <<"Failed to install " \o dep \o ":">> \o MainCatch.err, <<Exec(cmd)>>)
                         /\ Throw(MainCatch, "install:" \o dep, Len(ops) + 1)
                    ELSE /\ Log(said, <<>>, <<Exec(cmd)>>)
                         /\ pc' = "install" /\ exitCode' = exitCode
                         /\ failedAt' = IF ok THEN failedAt
                                        ELSE [what |-> "install:" \o dep, ops |-> Len(ops) + 1]
    /\ UNCHANGED <<pm, cfg, edir, tgt, status, outcome, lang, fs0, cancelAt, owAns, applied, addAns, hook>>

\* lines 661-667
SummaryMessage(st) ==
    IF ~st.hasElectron THEN "Electron and dependencies have been added for your project!"
    ELSE IF st.electronFilesExist THEN "Main field has been configured for your project!"
    ELSE "Electron has been configured for your project!"
Summaries == { SummaryMessage(st) : st \in [hasAstro : BOOLEAN, hasElectron : BOOLEAN,
                                            mainExists : BOOLEAN, electronFilesExist : BOOLEAN] }

\* lines 659-673
Summary ==
    /\ pc = "summary"
    /\ steps' = Append(steps, "summary")
    /\ Log(<<SummaryMessage(status)>>, <<>>, <<>>)
    /\ Return
    /\ UNCHANGED <<pm, pkg, cfg, edir, tgt, status, outcome, lang, idx, fs0, cancelAt, owAns, applied, addAns, hook>>

(***************************************************************************)
(* Creation flow: createNewProject                                         *)
(***************************************************************************)
\* lines 354-366; the name decides which directory is the target
ProjectName ==
    /\ pc = "projectName"
    /\ \E ans \in {"name", "cancel", "error"} :
         CASE ans = "name" ->
                /\ \E t \in {"absent", "original"} : tgt' = t
                /\ Log(<<>>, <<>>, <<Prompt("projectName")>>)
                /\ Goto("packageManager") /\ cancelAt' = cancelAt
           [] ans = "cancel" ->
                /\ tgt' = tgt
                /\ Log(<<MsgCancelledNl>>, <<>>, <<Prompt("projectName")>>)
                /\ Return /\ Cancelled("projectName")
           [] OTHER ->
                /\ tgt' = tgt
                /\ Log(<<>>, TopLevelCatch.err, <<Prompt("projectName")>>)
                /\ Throw(TopLevelCatch, "none", 0) /\ cancelAt' = cancelAt
    /\ UNCHANGED <<pm, pkg, cfg, edir, status, outcome, lang, idx, fs0, owAns, applied, addAns, steps, hook>>

\* lines 369 and 166-185; the catch is lines 473-479
GetPackageManager ==
    /\ pc = "packageManager"
    /\ IF pm # "npm"
       THEN /\ pm' = pm
            /\ Log(<<>>, <<>>, <<>>)
            /\ Goto("language") /\ cancelAt' = cancelAt
       ELSE \E ans \in PackageManagers \cup {"cancel", "error"} :
              CASE ans = "cancel" ->
                     /\ pm' = pm
                     /\ Log(<<MsgCancelledNl>>, <<>>, <<Prompt("packageManager")>>)
                     /\ Return /\ Cancelled("packageManager")
                [] ans = "error" ->
                     /\ pm' = pm
                     /\ Log(<<>>, TopLevelCatch.err, <<Prompt("packageManager")>>)
                     /\ Throw(TopLevelCatch, "none", 0) /\ cancelAt' = cancelAt
                [] OTHER ->
                     /\ pm' = ans
                     /\ Log(<<>>, <<>>, <<Prompt("packageManager")>>)
                     /\ Goto("language") /\ cancelAt' = cancelAt
    /\ UNCHANGED <<pkg, cfg, edir, tgt, status, outcome, lang, idx, fs0, owAns, applied, addAns, steps, hook>>

\* lines 370 and 326-351; a cancellation is logged there and again at 475
GetTemplateType ==
    /\ pc = "language"
    /\ \E ans \in {"typescript", "javascript", "cancel", "error"} :
         CASE ans = "cancel" ->
                /\ lang' = lang
                /\ Log(<<MsgCancelledNl, MsgCancelledNl>>, <<>>, <<Prompt("language")>>)
                /\ Return /\ Cancelled("language")
           [] ans = "error" ->
                /\ lang' = lang
                /\ Log(<<>>, TopLevelCatch.err, <<Prompt("language")>>)
                /\ Throw(TopLevelCatch, "none", 0) /\ cancelAt' = cancelAt
           [] OTHER ->
                /\ lang' = ans
                /\ Log(<<>>, <<>>, <<Prompt("language")>>)
                /\ Goto("checkDirectory") /\ cancelAt' = cancelAt
    /\ UNCHANGED <<pm, pkg, cfg, edir, tgt, status, outcome, idx, fs0, owAns, applied, addAns, steps, hook>>

\* lines 374-375 and 385-395: fs.access on the target
CheckDirectory ==
    /\ pc = "checkDirectory"
    /\ \E accessError \in BOOLEAN :
         IF accessError
         THEN /\ Log(<<>>, <<"Error checking directory:">> \o TopLevelCatch.err, <<>>)
              /\ Throw(TopLevelCatch, "access:target", Len(ops))
         ELSE /\ Log(<<>>, <<>>, <<>>)
              /\ IF tgt = "absent" THEN Goto("copyTemplate") ELSE Goto("overwriteDir")
    /\ UNCHANGED <<pm, pkg, cfg, edir, tgt, status, outcome, lang, idx, fs0, cancelAt, owAns, applied, addAns, steps, hook>>

\* lines 376-395: the catch that takes ENOENT for "no such directory" also
\* takes a rejection of the prompt; it throws again only an error that has a
\* code property.  hasCode: whether the rejection carries one.
OverwriteDir ==
    /\ pc = "overwriteDir"
    /\ \E ans \in PromptAnswers, hasCode \in BOOLEAN :
         /\ owAns' = [site |-> "directory", ans |-> ans]
         /\ IF ans = "cancel" THEN Cancelled("overwriteDir") ELSE cancelAt' = cancelAt
         /\ CASE ans = "yes" ->
                   Log(<<>>, <<>>, <<Prompt("overwriteDir")>>) /\ Goto("copyTemplate")
              [] ans = "no" ->
                   Log(<<MsgCancelled>>, <<>>, <<Prompt("overwriteDir")>>) /\ Return
              [] ans \in {"cancel", "error"} /\ ~hasCode ->
                   Log(<<>>, <<>>, <<Prompt("overwriteDir")>>) /\ Goto("copyTemplate")
              [] ans = "cancel" /\ hasCode ->
                   /\ Log(<<MsgCancelledNl>>, <<"Error checking directory:">>, <<Prompt("overwriteDir")>>)
                   /\ Return
              [] OTHER ->
                   /\ Log(<<>>, <<"Error checking directory:">> \o TopLevelCatch.err, <<Prompt("overwriteDir")>>)
                   /\ Throw(TopLevelCatch, "none", 0)
    /\ UNCHANGED <<pm, pkg, cfg, edir, tgt, status, outcome, lang, idx, fs0, applied, addAns, steps, hook>>

\* lines 398 and 33-43
CopyTemplate ==
    /\ pc = "copyTemplate"
    /\ \E ok \in BOOLEAN :
         IF ok
         THEN /\ tgt' = "copied"
              /\ Log(<<>>, <<>>, <<Copy("template")>>)
              /\ IF lang = "javascript" THEN Goto("javascript") ELSE Goto("created")
         ELSE /\ tgt' = tgt
              /\ Log(<<>>, <<"Error copying template:">> \o TopLevelCatch.err, <<>>)
              /\ Throw(TopLevelCatch, "cp:template", Len(ops))
    /\ UNCHANGED <<pm, pkg, cfg, edir, status, outcome, lang, idx, fs0, cancelAt, owAns, applied, addAns, steps, hook>>

\* lines 401-460: the edits of the untyped variant, in order
JsEdits == <<Write("target/package.json"), Write("target/astro.config.mjs"),
             Rename("target/main"), Rename("target/preload"),
             Write("target/electron/main.js")>>
\* where they can fail, and how many edits are done by then
JsFaults == {<<"read:target/package.json", 0>>, <<"parse:target/package.json", 0>>,
             <<"write:target/package.json", 0>>, <<"write:target/astro.config.mjs", 1>>,
             <<"rename:target/main", 2>>, <<"rename:target/preload", 3>>,
             <<"read:target/electron/main.js", 4>>, <<"write:target/electron/main.js", 4>>}

JavaScriptEdits ==
    /\ pc = "javascript"
    /\ \/ /\ Log(<<>>, <<>>, JsEdits)
          /\ tgt' = "copied-js"
          /\ Goto("created")
       \/ \E f \in JsFaults :
            /\ Log(<<>>, TopLevelCatch.err, SubSeq(JsEdits, 1, f[2]))
            /\ tgt' = IF f[2] = 0 THEN tgt ELSE "copied-partly-js"
            /\ Throw(TopLevelCatch, f[1], Len(ops) + f[2])
    /\ UNCHANGED <<pm, pkg, cfg, edir, status, outcome, lang, idx, fs0, cancelAt, owAns, applied, addAns, steps, hook>>

\* lines 462-472
Created ==
    /\ pc = "created"
    /\ Log(<<MsgCreated>>, <<>>, <<>>)
    /\ Return
    /\ UNCHANGED <<pm, pkg, cfg, edir, tgt, status, outcome, lang, idx, fs0, cancelAt, owAns, applied, addAns, steps, hook>>

(***************************************************************************)
(* One run of the tool                                                     *)
(***************************************************************************)
\* no build has run
NoHook == [platform |-> "none"]

InitRun ==
    /\ pc = "start" /\ pm = "npm" /\ tgt = "absent"
    /\ status = NoStatus /\ outcome = "none" /\ lang = "none" /\ idx = 0
    /\ out = <<>> /\ err = <<>> /\ ops = <<>> /\ exitCode = 0
    /\ cancelAt = NoCancel /\ failedAt = NoFailure /\ owAns = NoAnswer
    /\ addAns = "none" /\ steps = <<>>
    /\ applied = 0

Init ==
    /\ pkg \in Pkgs
    /\ cfg \in Cfgs(MaxCfgLen)
    /\ edir \in Edirs
    /\ fs0 = [pkg |-> pkg, cfg |-> cfg, edir |-> edir]
    /\ InitRun
    /\ hook = NoHook

Next ==
    \/ DetectPackageManager
    \/ HasPackageJson
    \/ Inspect
    \/ Classify
    \/ ConfirmAdd
    \/ CopyElectronFilesCheck
    \/ OverwriteElectron
    \/ CpElectron
    \/ Integrate
    \/ SetMainField
    \/ Install
    \/ Summary
    \/ ProjectName
    \/ GetPackageManager
    \/ GetTemplateType
    \/ CheckDirectory
    \/ OverwriteDir
    \/ CopyTemplate
    \/ JavaScriptEdits
    \/ Created

Spec == Init /\ [][Next]_vars

(***************************************************************************)
(* addElectronIntegration called again and again on one project            *)
(***************************************************************************)
InitAug ==
    /\ pkg \in { [exists |-> TRUE, valid |-> TRUE, deps |-> d, main |-> MainAbsent] :
                   d \in {{"astro"}, {"astro", "typescript"}} }
    /\ cfg \in Cfgs(MaxAugLen)
    /\ edir \in Edirs
    /\ fs0 = [pkg |-> pkg, cfg |-> cfg, edir |-> edir]
    /\ InitRun
    /\ hook = NoHook

Reapply ==
    /\ pc = "start"
    /\ applied < MaxApply
    /\ applied' = applied + 1
    /\ \E f \in AugFaults :
         LET r == addElectronIntegration(cfg, edir, pkg, f)
         IN /\ cfg' = r.cfg
            /\ edir' = r.edir
            /\ Log(r.out, r.err, r.ops)
            /\ failedAt' = IF r.threw
                           THEN [what |-> "addElectronIntegration", ops |-> Len(ops) + Len(r.ops)]
                           ELSE failedAt
    /\ UNCHANGED <<pc, pm, pkg, tgt, status, outcome, lang, idx, exitCode, fs0, cancelAt, owAns, addAns, steps, hook>>

NextAug == Reapply

SpecAug == InitAug /\ [][NextAug]_vars

(***************************************************************************)
(* Properties                                                              *)
(***************************************************************************)
Decided == pc \notin {"start", "hasPackageJson", "inspect", "decide"}
Disk == [pkg |-> pkg, cfg |-> cfg, edir |-> edir]
Last(log) == log[Len(log)]

\* the outcome section 4.4 of the specification gives for a snapshot
ExpectedOutcome ==
    IF ~fs0.pkg.exists THEN "NoProject"
    ELSE IF ~status.hasAstro THEN "ProjectNoFramework"
    ELSE IF status.hasElectron /\ status.mainExists /\ status.electronFilesExist
    THEN "FullyConfigured"
    ELSE "NeedsIntegration"

\* the tests of main()'s three branches that hold of the snapshot
BranchesTaken ==
    (IF FullyConfigured(status) THEN {"FullyConfigured"} ELSE {})
    \cup (IF ~status.hasAstro THEN {"ProjectNoFramework"} ELSE {})
    \cup (IF status.hasAstro /\ (~status.hasElectron \/ ~status.mainExists
                                  \/ ~status.electronFilesExist)
          THEN {"NeedsIntegration"} ELSE {})

\* C1: whatever the facts are, main() takes exactly one of the four outcomes:
\* without a manifest the creation flow (NoProject); with a manifest and
\* without the framework the creation flow (ProjectNoFramework), whatever the
\* integration facts are; with the framework and the three integration facts
\* FullyConfigured; with the framework and one of them false NeedsIntegration.
\* Exactly one of the three tests main() makes on a snapshot holds.
C1_ExactlyOneOutcome ==
    /\ outcome # "none" => outcome = ExpectedOutcome
    /\ (Decided /\ failedAt.what # "read:package.json") =>
          outcome \in {"NoProject", "ProjectNoFramework", "FullyConfigured", "NeedsIntegration"}
    /\ (Decided /\ outcome # "none" /\ outcome # "NoProject") =>
          BranchesTaken = {outcome}

\* a manifest without the framework whose three integration facts are true
C1_Witness ==
    /\ outcome = "ProjectNoFramework"
    /\ status.hasElectron /\ status.mainExists /\ status.electronFilesExist

\* C2: with the manifest, the framework, the integration dependency, the main
\* field and the integration files all there, the run prints the
\* fully-configured message and ends with no write, copy, rename, install or
\* prompt; manifest, configuration and electron directory are as before.
C2_FullyConfiguredIsNoOp ==
    (Decided /\ fs0.pkg.exists /\ status.hasAstro /\ status.hasElectron
       /\ status.mainExists /\ status.electronFilesExist) =>
      /\ pc = "done" /\ exitCode = 0
      /\ outcome = "FullyConfigured"
      /\ Has(out, MsgAllSet)
      /\ ops = <<>>
      /\ Disk = fs0

C2_Witness ==
    /\ pc = "done" /\ outcome = "FullyConfigured"
    /\ status = [hasAstro |-> TRUE, hasElectron |-> TRUE, mainExists |-> TRUE,
                 electronFilesExist |-> TRUE]
    /\ Has(out, MsgAllSet)

\* C3: in NeedsIntegration, after the user answers no to the add/configure
\* prompt the run has written, copied, renamed and installed nothing, has
\* printed the cancellation message and ends with exit code 0.
C3_DeclineIsNoOp ==
    (outcome = "NeedsIntegration" /\ addAns = "no") =>
      /\ pc = "done" /\ exitCode = 0
      /\ Mutations = {}
      /\ ops = <<Prompt("addElectron")>>
      /\ Disk = fs0
      /\ Last(out) = MsgCancelled

C3_Witness ==
    /\ pc = "done" /\ outcome = "NeedsIntegration" /\ addAns = "no"
    /\ ~status.hasElectron /\ ~status.mainExists /\ ~status.electronFilesExist

IsPrefix(a, b) == Len(a) <= Len(b) /\ SubSeq(b, 1, Len(a)) = a
Done(op) == \E i \in 1..Len(ops) : ops[i] = op
Execs == [ i \in 1..Cardinality(OfKind("exec")) |->
             ops[CHOOSE j \in OfKind("exec") :
                   Cardinality({ k \in OfKind("exec") : k < j }) = i - 1] ]
\* the run printed the summary of the integration flow
Summarised == pc = "done" /\ Len(out) > 0 /\ Last(out) \in Summaries

\* the three install commands the claim names, for the run's package manager
ClaimedInstalls ==
    LET add == CASE pm = "yarn" -> "yarn add "
                 [] pm = "pnpm" -> "pnpm add "
                 [] pm = "bun" -> "bun add "
                 [] OTHER -> "npm install "
    IN <<add \o "electron", add \o "astro-electron-ts", add \o "-D electron-builder">>

\* the steps the claim gives for a snapshot, in order
ExpectedSteps ==
    (IF ~status.electronFilesExist THEN <<"copyElectronFiles">> ELSE <<>>)
    \o <<"addElectronIntegration">>
    \o (IF ~status.mainExists THEN <<"setMainField">> ELSE <<>>)
    \o (IF ~status.hasElectron THEN ClaimedInstalls ELSE <<>>)
    \o <<"summary">>

\* the parts of C4 that do not speak of the copy
C4_Order ==
    /\ IsPrefix(steps, ExpectedSteps)
    /\ steps # <<>> => outcome = "NeedsIntegration" /\ addAns = "yes"
    /\ Summarised =>
         /\ steps = ExpectedSteps
         /\ Done(Write("package.json")) <=> ~status.mainExists
         /\ ~status.mainExists => pkg.main = MainEntry
         /\ Execs = IF ~status.hasElectron
                    THEN [ i \in 1..3 |-> Exec(ClaimedInstalls[i]) ] ELSE <<>>

\* C4 as claimed: after a yes the steps run in the order copy, configuration
\* augmentation, main field, installs, summary; the files are copied iff they
\* were missing, the main field is set to 'dist-electron/main.js' iff it was
\* missing, and electron, astro-electron-ts and -D electron-builder are
\* installed, in that order, iff the integration dependency fact was false.
C4_AsClaimed ==
    /\ C4_Order
    /\ Summarised => (Done(Copy("electron")) <=> ~status.electronFilesExist)

\* C4 amended: as claimed, but the copy step, entered iff the files were
\* missing, copies unless the electron directory is there and the user
\* answers no to the overwrite prompt; the run then goes on without a copy.
C4_StepsInOrder ==
    /\ C4_Order
    /\ Summarised =>
         (Done(Copy("electron")) <=>
            (~status.electronFilesExist /\ ~(owAns.site = "electron" /\ owAns.ans = "no")))

\* every conditional step ran, and the installs came last
C4_Witness ==
    /\ Summarised
    /\ ~status.electronFilesExist /\ ~status.mainExists /\ ~status.hasElectron
    /\ Done(Copy("electron")) /\ Len(steps) = 7

InstallFailures == { "install:" \o InstallList[i] : i \in 1..Len(InstallList) }

\* C5: the installs run one package per invocation, one after the other, and
\* the first one that fails is the last: no later install is invoked, the
\* summary is not printed and the process ends with a non-zero status.
C5_FirstFailedInstallIsLast ==
    /\ IsPrefix(Execs, [ i \in 1..3 |-> Exec(ClaimedInstalls[i]) ])
    /\ failedAt.what \in InstallFailures =>
         /\ pc = "done" /\ exitCode # 0
         /\ Len(ops) = failedAt.ops
         /\ Last(ops) = Exec(ClaimedInstalls[Len(Execs)])
         /\ failedAt.what = "install:" \o InstallList[Len(Execs)]
         /\ \A i \in 1..Len(out) : out[i] \notin Summaries
         /\ pkg.deps \cap {"electron", "astro-electron-ts", "electron-builder"}
              = { InstallList[i] : i \in 1..(Len(Execs) - 1) } \cup (fs0.pkg.deps \cap {"electron"})

\* the second install failed: the third was not invoked
C5_Witness ==
    /\ failedAt.what = "install:astro-electron-ts"
    /\ Len(Execs) = 2 /\ pc = "done" /\ exitCode = 1

ConfigWrites == { i \in 1..Len(ops) : ops[i] = Write("astro.config") }

\* C6: addElectronIntegration is idempotent on the configuration file: for
\* every content and both language variants, a call that follows a call that
\* got as far as its edit leaves the content as that call left it, because
\* every such call leaves the marker 'astro-electron-ts' in the file and a
\* content with the marker is returned unchanged.
C6_AugmentationIdempotent ==
    /\ \A f1 \in AugFaults, f2 \in AugFaults :
         LET r1 == addElectronIntegration(cfg, edir, pkg, f1)
             r2 == addElectronIntegration(r1.cfg, r1.edir, pkg, f2)
         IN (~r1.threw \/ r1.ops # <<>>) =>
              /\ r2.cfg = r1.cfg
              /\ r2.ops = <<>>
              /\ r1.cfg.exists => HasMarker(r1.cfg.content)
    /\ Cardinality(ConfigWrites) <= 1
    /\ ConfigWrites # {} => HasMarker(cfg.content)
    /\ ConfigWrites = {} => cfg = fs0.cfg

\* two calls on a configuration with a defineConfig({ and no marker: one write
C6_Witness ==
    /\ applied = 2
    /\ Includes(fs0.cfg.content, ConfigOpen) /\ ~HasMarker(fs0.cfg.content)
    /\ Cardinality(ConfigWrites) = 1
    /\ cfg.content = AugmentContent(fs0.cfg.content, isJavaScriptProject(pkg))
    /\ failedAt.what = "none"

\* C7: the main field injection leaves a manifest that has a main field as it
\* is, whatever the value of the field, an empty one included, and sets the
\* field to 'dist-electron/main.js' only when the manifest has none.
C7_PresentMainFieldKept ==
    /\ fs0.pkg.main # MainAbsent =>
         pkg.main = fs0.pkg.main /\ ~Done(Write("package.json"))
    /\ Done(Write("package.json")) =>
         fs0.pkg.main = MainAbsent /\ pkg.main = MainEntry

\* C8: over a destination that is there, nothing is copied unless the
\* overwrite prompt was answered yes: after a no or a cancelled prompt, in
\* createNewProject and in copyElectronFiles, there is no copy, the
\* destination is as it was and nothing is reported as an error.
C8_NoOverwriteWithoutYes ==
    owAns.ans \in {"no", "cancel"} =>
      /\ ~Done(Copy("template")) /\ ~Done(Copy("electron"))
      /\ owAns.site = "directory" => tgt = "original"

\* C9: a cancelled prompt, at any of the six prompts, ends the run: exit code
\* 0, a cancellation message printed, nothing on the error stream and no
\* further step.
C9_CancelEndsRun ==
    cancelAt.site # "none" =>
      /\ pc = "done" /\ exitCode = 0
      /\ Has(out, MsgCancelledNl)
      /\ Len(err) = cancelAt.err
      /\ Len(ops) = cancelAt.ops

\* how a run that ended with exit code 0 may have ended
GoodEndings == Summaries \cup {MsgAllSet, MsgCreated, MsgCancelled, MsgCancelledNl}

\* C10: a failed copy, write, rename, install or manifest read ends the run
\* with exit code 1, in the creation flow and in the integration flow: the
\* failed operation is not tried again and no later step runs.  A run ends
\* with exit code 0 only after success, a no or a cancellation.
C10_FailureExitsOne ==
    /\ failedAt.what # "none" =>
         /\ pc = "done" /\ exitCode = 1
         /\ Len(ops) = failedAt.ops
         /\ Len(err) > 0 /\ Last(err) \in {Last(MainCatch.err), Last(TopLevelCatch.err)}
         /\ Len(out) > 0 => Last(out) \notin {MsgCreated, MsgAllSet} \cup Summaries
    /\ (pc = "done" /\ exitCode = 0) =>
         /\ failedAt.what = "none"
         /\ Len(out) > 0 /\ Last(out) \in GoodEndings

\* a rename of the creation flow failed after two edits of the new project
C10_Witness ==
    /\ failedAt.what = "rename:target/main"
    /\ pc = "done" /\ exitCode = 1 /\ tgt = "copied-partly-js"

(***************************************************************************)
(* The plugin's post-build hook, 'astro:build:done'                        *)
(*                                                                         *)
(* A location is a file or directory of the disk: a drive ("" on POSIX)    *)
(* and the names from the root.  A path is text handed to path.* or fs.*:  *)
(* whether it starts with a separator, and its segments.  An emitted file  *)
(* is a sequence of chunks: a reference "/astro-electron-ts" or "/public", *)
(* a relative path put in place of one, or text with no reference.         *)
(***************************************************************************)
\* most chunks of an emitted file
MaxHtmlLen == 1
\* most routes of a build
MaxRoutes == 2

Drives == {"C:", "D:"}
Loc(drive, segs) == [drive |-> drive, segs |-> segs]
Path(lead, segs) == [lead |-> lead, segs |-> segs]

\* URL.pathname of a file: URL: "/proj/dist/x", or "/C:/proj/dist/x"
Pathname(loc) ==
    Path(TRUE, IF loc.drive = "" THEN loc.segs ELSE <<loc.drive>> \o loc.segs)

\* filePath.replace(/^\//, '').replace(/\\/g, '/')
NormalizedPath(p) == Path(FALSE, p.segs)

\* path.dirname
Dirname(p) == Path(p.lead, SubSeq(p.segs, 1, Len(p.segs) - 1))

\* path.resolve of one path against the working directory.  On win32 a path
\* that starts with a separator is rooted on the drive of the working
\* directory, and "C:" after that separator is a directory name.
Resolve(platform, cwd, p) ==
    IF platform = "posix"
    THEN IF p.lead THEN Loc("", p.segs) ELSE Loc("", cwd.segs \o p.segs)
    ELSE IF p.lead THEN Loc(cwd.drive, p.segs)
    ELSE IF Len(p.segs) > 0 /\ p.segs[1] \in Drives
    THEN Loc(p.segs[1], Tail(p.segs))
    ELSE Loc(cwd.drive, cwd.segs \o p.segs)

CommonLen(a, b) ==
    LET lens == { k \in 0..Len(a) : k <= Len(b) /\ \A i \in 1..k : a[i] = b[i] }
    IN CHOOSE k \in lens : \A j \in lens : j <= k

\* the segments of the relative path from location a to location b
RelativeLoc(a, b) ==
    IF a.drive # b.drive THEN <<b.drive>> \o b.segs
    ELSE LET k == CommonLen(a.segs, b.segs)
         IN [ i \in 1..(Len(a.segs) - k) |-> ".." ] \o SubSeq(b.segs, k + 1, Len(b.segs))

\* path.relative(from, to)
Relative(platform, cwd, from, to) ==
    RelativeLoc(Resolve(platform, cwd, from), Resolve(platform, cwd, to))

Ref(name) == [kind |-> "ref", v |-> <<name>>]
Text == [kind |-> "text", v |-> <<>>]
Rel(segs) == [kind |-> "rel", v |-> segs]
HtmlChunks == {Ref("/astro-electron-ts"), Ref("/public"), Text}

\* file.replaceAll(/\/(astro-electron-ts|public)/g, relativePath || '.')
ReplaceAll(content, relativePath) ==
    [ i \in 1..Len(content) |->
        IF content[i].kind = "ref"
        THEN Rel(IF relativePath = <<>> THEN <<".">> ELSE relativePath)
        ELSE content[i] ]

\* a route that emitted no file: no distURL
NoDist == <<>>
\* the files a build can emit, below the output directory
EmittedNames == {<<"index.html">>, <<"about", "index.html">>}
OutDirSegs == <<"proj", "dist">>

\* the path the hook reads and writes for output file f (lines 70-74)
HookPath(f) == NormalizedPath(Pathname(f))
\* the location that path names
HookTarget(f) == Resolve(hook.platform, hook.cwd, HookPath(f))
\* lines 78-81
HookRelativePath(f) ==
    Relative(hook.platform, hook.cwd, Dirname(HookPath(f)), Pathname(hook.dir))

Platforms == {"posix", "win32"}
HookInits ==
    { [platform |-> pf, cwd |-> cwd, dir |-> Loc(d, OutDirSegs), routes |-> rs,
       files |-> fl, files0 |-> fl,
       rpc |-> [ i \in 1..Len(rs) |-> "read" ],
       buf |-> [ i \in 1..Len(rs) |-> <<>> ],
       result |-> "pending", ioFault |-> FALSE] :
        pf \in Platforms,
        d \in Drives \cup {""},
        cwd \in { Loc(dr, sg) : dr \in Drives \cup {""}, sg \in {<<>>, <<"proj">>} },
        rs \in SeqsUpTo(EmittedNames \cup {NoDist}, MaxRoutes),
        fl \in [ EmittedNames -> SeqsUpTo(HtmlChunks, MaxHtmlLen) ] }

\* a build of the platform: drives on win32 only, one output file per route
HookInput(h) ==
    /\ (h.platform = "posix") <=> (h.dir.drive = "")
    /\ (h.platform = "posix") <=> (h.cwd.drive = "")
    /\ \A i, j \in 1..Len(h.routes) :
         (i # j /\ h.routes[i] # NoDist) => h.routes[i] # h.routes[j]

\* the output file of route i
DistFile(i) == Loc(hook.dir.drive, hook.dir.segs \o hook.routes[i])
\* the content of the file at a location; the build emitted EmittedNames
IsEmitted(loc) ==
    /\ loc.drive = hook.dir.drive
    /\ Len(loc.segs) > Len(hook.dir.segs)
    /\ SubSeq(loc.segs, 1, Len(hook.dir.segs)) = hook.dir.segs
    /\ SubSeq(loc.segs, Len(hook.dir.segs) + 1, Len(loc.segs)) \in EmittedNames
NameOf(loc) == SubSeq(loc.segs, Len(hook.dir.segs) + 1, Len(loc.segs))

MainIdle ==
    UNCHANGED <<pc, pm, pkg, cfg, edir, tgt, status, outcome, lang, idx, out, ops,
                exitCode, fs0, cancelAt, failedAt, owAns, addAns, steps, applied>>

\* lines 90-93: the catch logs and throws again; Promise.all rejects at once
HookFail(i, io) ==
    /\ hook' = [hook EXCEPT !.rpc[i] = "failed",
                            !.result = IF @ = "pending" THEN "failed" ELSE @,
                            !.ioFault = @ \/ io]
    /\ err' = Append(err, "Error processing file")

\* line 68: a route without distURL
HookSkip(i) ==
    /\ hook.rpc[i] = "read" /\ hook.routes[i] = NoDist
    /\ hook' = [hook EXCEPT !.rpc[i] = "done"]
    /\ err' = err
    /\ MainIdle

\* lines 70-77: fs.readFile on the normalized path
HookRead(i) ==
    /\ hook.rpc[i] = "read" /\ hook.routes[i] # NoDist
    /\ LET target == HookTarget(DistFile(i))
       IN IF ~IsEmitted(target) THEN HookFail(i, FALSE)
          ELSE \E ok \in BOOLEAN :
                 IF ok
                 THEN /\ hook' = [hook EXCEPT !.rpc[i] = "write",
                                              !.buf[i] = hook.files[NameOf(target)]]
                      /\ err' = err
                 ELSE HookFail(i, TRUE)
    /\ MainIdle

\* lines 78-89: fs.writeFile of the content with its references replaced
HookWrite(i) ==
    /\ hook.rpc[i] = "write"
    /\ \E ok \in BOOLEAN :
         IF ok
         THEN /\ hook' = [hook EXCEPT
                    !.rpc[i] = "done",
                    !.files[NameOf(HookTarget(DistFile(i)))] =
                        ReplaceAll(hook.buf[i], HookRelativePath(DistFile(i)))]
              /\ err' = err
         ELSE HookFail(i, TRUE)
    /\ MainIdle

\* line 66: Promise.all resolves when every route is done
HookResolve ==
    /\ hook.result = "pending"
    /\ \A i \in 1..Len(hook.routes) : hook.rpc[i] = "done"
    /\ hook' = [hook EXCEPT !.result = "ok"]
    /\ err' = err
    /\ MainIdle

InitHook ==
    /\ pkg = NoPkg /\ cfg = NoCfg /\ edir = NoEdir
    /\ fs0 = [pkg |-> pkg, cfg |-> cfg, edir |-> edir]
    /\ InitRun
    /\ hook \in { h \in HookInits : HookInput(h) }

NextHook ==
    \/ \E i \in 1..Len(hook.routes) : HookSkip(i)
    \/ \E i \in 1..Len(hook.routes) : HookRead(i)
    \/ \E i \in 1..Len(hook.routes) : HookWrite(i)
    \/ HookResolve

SpecHook == InitHook /\ [][NextHook]_vars

HookSettled ==
    /\ hook.platform # "none" /\ hook.result # "pending"
    /\ \A i \in 1..Len(hook.routes) : hook.rpc[i] \in {"done", "failed"}
\* the output files of the routes that have one
Routed == { hook.routes[i] : i \in 1..Len(hook.routes) } \ {NoDist}
\* the relative path from the directory of output file n to the output directory
OwnRelativePath(n) ==
    RelativeLoc(Loc(hook.dir.drive, hook.dir.segs \o SubSeq(n, 1, Len(n) - 1)), hook.dir)

\* every output file of a route is read and written when no read or write fails
C11_Processes == (HookSettled /\ ~hook.ioFault) => hook.result = "ok"
\* after a successful hook every such file has its references replaced by the
\* relative path from its own directory to the output directory
C11_Rewritten ==
    (HookSettled /\ hook.result = "ok") =>
       \A n \in Routed : hook.files[n] = ReplaceAll(hook.files0[n], OwnRelativePath(n))
\* the other files are untouched
C11_OthersUntouched ==
    hook.platform # "none" => \A n \in EmittedNames \ Routed : hook.files[n] = hook.files0[n]
\* a read or write that fails makes the hook fail
C11_FaultFails == (HookSettled /\ hook.ioFault) => hook.result = "failed"

\* C11: the post-build hook processes every route that has an output file:
\* after a successful hook each such file has been read and rewritten with
\* its '/astro-electron-ts' and '/public' references replaced by the relative
\* path from its own directory to the output directory ('.' for the output
\* directory itself), files of routes without output are untouched, and a
\* failed read or write of one file makes the hook fail.
C11_HookRewritesEveryOutput ==
    /\ C11_Processes
    /\ C11_Rewritten
    /\ C11_OthersUntouched
    /\ C11_FaultFails

(***************************************************************************)
(* The Project Inspector on an absent or malformed manifest                *)
(***************************************************************************)
\* the positions of createNewProject
CreationFlow ==
    pc \in {"projectName", "packageManager", "language", "checkDirectory",
            "overwriteDir", "copyTemplate", "javascript", "created", "done"}
\* the operations of the integration flow
IntegrationOps ==
    { i \in 1..Len(ops) :
        \/ ops[i].kind = "exec"
        \/ ops[i] \in {Prompt("addElectron"), Prompt("overwriteElectron"), Copy("electron"),
                       Write("package.json"), Write("astro.config"),
                       Write("electron/main.js"), Rename("main"), Rename("preload")} }

\* C12: the Project Inspector never fails on an absent or malformed
\* manifest: without a manifest the run takes the creation flow
\* (hasManifest = false); a manifest that exists but does not parse counts
\* as no framework, no integration dependency and no entry-point field, the
\* run takes the ProjectNoFramework creation flow, no error comes from the
\* inspection and the manifest is never written.  (A read of the manifest
\* that fails for another reason than absence is a fault of its own.)
C12_BadManifestIsAbsence ==
    (fs0.pkg \in {NoPkg, BadPkg} /\ pc \notin {"start", "hasPackageJson", "inspect"}) =>
       /\ failedAt.what # "parse:package.json"
       /\ pkg = fs0.pkg /\ ~Done(Write("package.json"))
       /\ failedAt.what # "read:package.json" =>
            /\ fs0.pkg = NoPkg => outcome = "NoProject" /\ ~hasPackageJson(pkg)
            /\ fs0.pkg = BadPkg =>
                 /\ hasPackageJson(pkg)
                 /\ ~status.hasAstro /\ ~status.hasElectron /\ ~status.mainExists
                 /\ pc # "decide" => outcome = "ProjectNoFramework"
            /\ pc # "decide" => CreationFlow
            /\ IntegrationOps = {}

\* a project was created next to a manifest that does not parse
C12_Witness ==
    /\ fs0.pkg = BadPkg /\ outcome = "ProjectNoFramework"
    /\ pc = "done" /\ exitCode = 0 /\ Len(out) > 0 /\ Last(out) = MsgCreated
    /\ pkg = BadPkg

(***************************************************************************)
(* Convergence of one run of the integration flow                          *)
(***************************************************************************)
\* a finished run of the integration flow in which the user said yes to
\* every prompt and no collaborator call was made to fail
ConfirmedRun ==
    /\ pc = "done" /\ outcome = "NeedsIntegration"
    /\ addAns = "yes" /\ owAns.ans \in {"none", "yes"}
    /\ failedAt.what \in {"none", "rename:ENOENT"}
Converged == exitCode = 0 /\ Decide(ProjectStatus(pkg, cfg, edir)) = "FullyConfigured"

\* the same for a TypeScript project that has a configuration file
C13_TypeScriptConverges ==
    (ConfirmedRun /\ fs0.cfg.exists /\ ~isJavaScriptProject(fs0.pkg)) => Converged

\* C13: reconciliation converges in one run: from any NeedsIntegration
\* state, for both language variants, when the user confirms the
\* add/configure prompt and every overwrite prompt and every copy and
\* install succeeds, the run ends with exit code 0 and a fresh inspection of
\* the project finds it FullyConfigured.
C13_ConvergesInOneRun == ConfirmedRun => Converged

====
